---- MODULE Spec2Model ----
(***************************************************************************)
(* A model of generate_audio.py: the CSV record parser (parse_csv) and the *)
(* per-question retrieval / assembly / transcript loop of main.            *)
(*                                                                         *)
(* Text is modelled as a sequence of one-character strings, so that the    *)
(* prefix tests, strip() and int() of the source are computed and not      *)
(* assumed.  A link is a sequence of tokens in which the marker            *)
(* 'watch?v=' is one token.                                                *)
(***************************************************************************)
EXTENDS Integers, Sequences, FiniteSets, TLC

VARIABLES
    \* ---- parse_csv -------------------------------------------------------
    rows,              \* the rows csv.DictReader yields, in order (it drops
                       \*   empty lines; a row of empty fields is a blank row)
    ri,                \* index of the next row the for loop reads
    current_question,  \* the accumulator of parse_csv
    data,              \* parse_csv's output list; main's question list
    pstat,             \* "idle" | "parsing" | "returned" | "raised"
    \* ---- main -----------------------------------------------------------
    args,              \* the parsed command line: all, qs, overwrite
    input_file,        \* the question list the input file holds
    pc,                \* where main is: "start", "read", "loop", "clues",
                       \*   "done", "rejected", "crashed"
    texts,             \* main's list of transcript entries
    qi,                \* index in data of the question the for loop is at
    ci,                \* index of the next clue of that question
    clue_clips,        \* the clips collected for that question
    vidcache,          \* names of the files in VIDCACHE_DIR
    audio_files,       \* output directory: audio path -> content, or NoFile
    text_files,        \* output directory: the two transcripts, or NoFile
    \* ---- observation ----------------------------------------------------
    run,               \* number of the current run
    events,            \* calls made so far, over all runs, in order
    outcome            \* per question of this run, how its iteration ended

pvars == <<rows, ri, current_question, pstat>>
mvars == <<args, input_file, pc, texts, qi, ci, clue_clips, vidcache, audio_files,
           text_files, run, events, outcome>>

----------------------------------------------------------------------------
(* Bounds of the model *)

MaxRows == 3
MaxItems == 4          \* questions plus clues of an input file
MaxRuns == 2
MediaLenSec == 2       \* length of every decoded video, in seconds

----------------------------------------------------------------------------
(* Text helpers: what str.startswith, str.replace(prefix, '', 1),          *)
(* str.strip and int do on the texts of the model.                         *)

E == <<>>

IsSpace(c) == c \in {" ", "\t"}

RECURSIVE LStrip(_)
LStrip(s) == IF s # <<>> /\ IsSpace(Head(s)) THEN LStrip(Tail(s)) ELSE s

RECURSIVE RStrip(_)
RStrip(s) ==
    IF s # <<>> /\ IsSpace(s[Len(s)]) THEN RStrip(SubSeq(s, 1, Len(s) - 1)) ELSE s

Strip(s) == RStrip(LStrip(s))

StartsWith(s, p) == Len(s) >= Len(p) /\ SubSeq(s, 1, Len(p)) = p

\* s.replace(p, '', 1) for an s that starts with p: the first occurrence is
\* the prefix.
RemovePrefix(s, p) == SubSeq(s, Len(p) + 1, Len(s))

Digits == {"0", "1", "2", "3", "4", "5", "6", "7", "8", "9"}

DigitVal(c) ==
    CASE c = "0" -> 0 [] c = "1" -> 1 [] c = "2" -> 2 [] c = "3" -> 3
      [] c = "4" -> 4 [] c = "5" -> 5 [] c = "6" -> 6 [] c = "7" -> 7
      [] c = "8" -> 8 [] c = "9" -> 9

RECURSIVE DigitsVal(_)
DigitsVal(s) ==
    IF s = <<>> THEN 0 ELSE 10 * DigitsVal(SubSeq(s, 1, Len(s) - 1)) + DigitVal(s[Len(s)])

AllDigits(s) == s # <<>> /\ \A k \in 1..Len(s) : s[k] \in Digits

\* int(s): surrounding blanks are ignored, one sign is allowed, then at least
\* one digit; anything else raises ValueError.
IntOk(s) ==
    LET t == Strip(s) IN
    IF t # <<>> /\ Head(t) \in {"+", "-"} THEN AllDigits(Tail(t)) ELSE AllDigits(t)

\* A variant of int() that reads the magnitude and drops the sign.
IntVal_Magnitude(s) ==
    LET t == Strip(s) IN
    IF Head(t) \in {"+", "-"} THEN DigitsVal(Tail(t)) ELSE DigitsVal(t)

IntVal(s) ==
    LET t == Strip(s) IN
    IF Head(t) = "-" THEN 0 - DigitsVal(Tail(t))
    ELSE IF Head(t) = "+" THEN DigitsVal(Tail(t))
    ELSE DigitsVal(t)

----------------------------------------------------------------------------
(* Constants of the source *)

None == <<"None">>

_CSV_QUESTION_PREFIX == <<"Q", ":">>
_CSV_ANSWER_PREFIX == <<"A", ":">>

----------------------------------------------------------------------------
(* The rows of the model *)

QID1 == <<"Q", "1">>
QID2 == <<"Q", "2">>
LinkText == <<"u">>

Row(q, d, l, s, n) == [qid |-> q, desc |-> d, link |-> l, start |-> s, length |-> n]

BlankRow == Row(E, E, E, E, E)

ClueRows ==
    { Row(q, d, LinkText, <<"0">>, <<"5">>) : q \in {E, QID1, QID2}, d \in {<<"x">>, <<"y">>} }

TextRows ==
    { Row(q, d, E, E, E) :
        q \in {E, QID1, QID2},
        d \in {<<"Q", ":", " ", "p", " ">>, <<"A", ":", "a">>} }

OddRows ==
    { Row(<<" ">>, <<"x">>, LinkText, <<"0">>, <<"5">>),       \* an id of blanks only
      Row(QID1, <<"x">>, LinkText, <<"a">>, <<"5">>),          \* non-numeric start
      Row(E, <<"y">>, LinkText, <<" ", "1", "2">>, <<"-", "3">>) }  \* padded start, negative length

Rows == {BlankRow} \cup ClueRows \cup TextRows \cup OddRows

RECURSIVE SeqsUpTo(_, _)
SeqsUpTo(S, n) ==
    IF n = 0 THEN {<<>>}
    ELSE LET shorter == SeqsUpTo(S, n - 1)
         IN  shorter \cup { Append(s, x) : s \in {t \in shorter : Len(t) = n - 1}, x \in S }

----------------------------------------------------------------------------
(* parse_csv *)

generate_empty_question == [qid |-> None, question |-> E, answer |-> E, clues |-> <<>>]

is_blank_line(line) ==
    line.qid = E /\ line.desc = E /\ line.link = E /\ line.start = E /\ line.length = E

has_different_question_id(cur, line) ==
    cur.qid # None /\ line.qid # E /\ line.qid # cur.qid

is_end_of_question(cur, line) == is_blank_line(line) \/ has_different_question_id(cur, line)

\* A variant of the classification that puts a clue in front of the clues
\* collected so far.
ClassifyRow_ClueInFront(cur, line) ==
    IF StartsWith(line.desc, _CSV_QUESTION_PREFIX)
    THEN [raise |-> FALSE,
          cur |-> [cur EXCEPT !.question = Strip(RemovePrefix(line.desc, _CSV_QUESTION_PREFIX))]]
    ELSE IF StartsWith(line.desc, _CSV_ANSWER_PREFIX)
    THEN [raise |-> FALSE,
          cur |-> [cur EXCEPT !.answer = Strip(RemovePrefix(line.desc, _CSV_ANSWER_PREFIX))]]
    ELSE IF IntOk(line.start) /\ IntOk(line.length)
    THEN [raise |-> FALSE,
          cur |-> [cur EXCEPT !.clues =
                      <<[description |-> line.desc, link |-> line.link,
                         start |-> IntVal(line.start),
                         length |-> IntVal(line.length)]>> \o @]]
    ELSE [raise |-> TRUE, cur |-> cur]

\* Lines 65-74: the row classified by the prefix of its description and
\* folded into the accumulator; "raise" when int() fails on a clue row.
ClassifyRow(cur, line) ==
    IF StartsWith(line.desc, _CSV_QUESTION_PREFIX)
    THEN [raise |-> FALSE,
          cur |-> [cur EXCEPT !.question = Strip(RemovePrefix(line.desc, _CSV_QUESTION_PREFIX))]]
    ELSE IF StartsWith(line.desc, _CSV_ANSWER_PREFIX)
    THEN [raise |-> FALSE,
          cur |-> [cur EXCEPT !.answer = Strip(RemovePrefix(line.desc, _CSV_ANSWER_PREFIX))]]
    ELSE IF IntOk(line.start) /\ IntOk(line.length)
    THEN [raise |-> FALSE,
          cur |-> [cur EXCEPT !.clues =
                      Append(@, [description |-> line.desc, link |-> line.link,
                                 start |-> IntVal(line.start),
                                 length |-> IntVal(line.length)])]]
    ELSE [raise |-> TRUE, cur |-> cur]

\* A variant of the id check that compares the field as it stands.
ProcessRow_NoStrip(cur, line) ==
    IF cur.qid = None \/ cur.qid = E
    THEN IF line.qid = E
         THEN [raise |-> TRUE, cur |-> cur]
         ELSE ClassifyRow([cur EXCEPT !.qid = line.qid], line)
    ELSE ClassifyRow(cur, line)

\* Lines 60-74: the id check of a block's first row, then the classification.
ProcessRow(cur, line) ==
    IF cur.qid = None \/ cur.qid = E
    THEN IF Strip(line.qid) = E
         THEN [raise |-> TRUE, cur |-> cur]
         ELSE ClassifyRow([cur EXCEPT !.qid = line.qid], line)
    ELSE ClassifyRow(cur, line)

\* A variant of the loop body that moves on to the next row once it has
\* closed a block, whatever the row that closed it.
LoopBody_DropClosingRow(out, cur, line) ==
    IF is_end_of_question(cur, line)
    THEN IF cur = generate_empty_question
         THEN [raise |-> FALSE, data |-> out, cur |-> cur]
         ELSE [raise |-> FALSE, data |-> Append(out, cur), cur |-> generate_empty_question]
    ELSE LET r == ProcessRow(cur, line)
         IN  [raise |-> r.raise, data |-> out, cur |-> r.cur]

\* A variant of the loop body in which a row that closes a block by its id
\* leaves the id of the accumulator as it was.
LoopBody_KeepsOldId(out, cur, line) ==
    IF is_end_of_question(cur, line)
    THEN IF cur = generate_empty_question
         THEN [raise |-> FALSE, data |-> out, cur |-> cur]
         ELSE IF is_blank_line(line)
              THEN [raise |-> FALSE, data |-> Append(out, cur), cur |-> generate_empty_question]
              ELSE LET r == ProcessRow([generate_empty_question EXCEPT !.qid = cur.qid], line)
                   IN  [raise |-> r.raise, data |-> Append(out, cur), cur |-> r.cur]
    ELSE LET r == ProcessRow(cur, line)
         IN  [raise |-> r.raise, data |-> out, cur |-> r.cur]

\* A variant of the loop body that retains a closed block only if it holds
\* a clue.
LoopBody_DropsClueless(out, cur, line) ==
    IF is_end_of_question(cur, line)
    THEN IF cur = generate_empty_question
         THEN [raise |-> FALSE, data |-> out, cur |-> cur]
         ELSE LET kept == IF cur.clues # <<>> THEN Append(out, cur) ELSE out
              IN  IF is_blank_line(line)
                  THEN [raise |-> FALSE, data |-> kept, cur |-> generate_empty_question]
                  ELSE LET r == ProcessRow(generate_empty_question, line)
                       IN  [raise |-> r.raise, data |-> kept, cur |-> r.cur]
    ELSE LET r == ProcessRow(cur, line)
         IN  [raise |-> r.raise, data |-> out, cur |-> r.cur]

\* A variant of the loop body that appends the accumulator at every blank
\* row, the empty one included.
LoopBody_AppendsEmpty(out, cur, line) ==
    IF is_end_of_question(cur, line)
    THEN IF is_blank_line(line)
         THEN [raise |-> FALSE, data |-> Append(out, cur), cur |-> generate_empty_question]
         ELSE LET r == ProcessRow(generate_empty_question, line)
              IN  [raise |-> r.raise, data |-> Append(out, cur), cur |-> r.cur]
    ELSE LET r == ProcessRow(cur, line)
         IN  [raise |-> r.raise, data |-> out, cur |-> r.cur]

\* One iteration of the for loop, lines 44-74: the list and the accumulator
\* after the row, and whether the iteration raised.
LoopBody(out, cur, line) ==
    IF is_end_of_question(cur, line)
    THEN IF cur = generate_empty_question
         THEN [raise |-> FALSE, data |-> out, cur |-> cur]
         ELSE IF is_blank_line(line)
              THEN [raise |-> FALSE, data |-> Append(out, cur), cur |-> generate_empty_question]
              ELSE LET r == ProcessRow(generate_empty_question, line)
                   IN  [raise |-> r.raise, data |-> Append(out, cur), cur |-> r.cur]
    ELSE LET r == ProcessRow(cur, line)
         IN  [raise |-> r.raise, data |-> out, cur |-> r.cur]

\* A variant of the end of parse_csv that keeps any pending accumulator.
FinalData_AnyPending(out, cur) == IF cur # generate_empty_question THEN Append(out, cur) ELSE out

\* Lines 76-80: what parse_csv returns once the rows are used up.
FinalData(out, cur) == IF cur.clues # <<>> THEN Append(out, cur) ELSE out

\* Lines 40-80: parse_csv as a function of the rows, "raise" when an
\* iteration raises.
RECURSIVE ParseFrom(_, _, _)
ParseFrom(out, cur, rs) ==
    IF rs = <<>>
    THEN [raise |-> FALSE, data |-> FinalData(out, cur)]
    ELSE LET r == LoopBody(out, cur, Head(rs))
         IN  IF r.raise THEN [raise |-> TRUE, data |-> <<>>]
             ELSE ParseFrom(r.data, r.cur, Tail(rs))

parse_csv(rs) == ParseFrom(<<>>, generate_empty_question, rs)

\* main has not started: nothing of it is observable while parse_csv is
\* studied on its own.
MainIdle ==
    /\ args = [all |-> FALSE, qs_given |-> FALSE, qs |-> {}, overwrite |-> FALSE]
    /\ input_file = <<>>
    /\ pc = "idle"
    /\ texts = <<>> /\ qi = 1 /\ ci = 1 /\ clue_clips = <<>>
    /\ vidcache = {}
    /\ audio_files = <<>> /\ text_files = <<>>
    /\ run = 1 /\ events = <<>> /\ outcome = <<>>

InitParse ==
    /\ rows \in SeqsUpTo(Rows, MaxRows)
    /\ ri = 1
    /\ current_question = generate_empty_question
    /\ data = <<>>
    /\ pstat = "parsing"
    /\ MainIdle

ParseRow ==
    /\ pstat = "parsing"
    /\ ri <= Len(rows)
    /\ LET r == LoopBody(data, current_question, rows[ri])
       IN  /\ data' = r.data
           /\ current_question' = r.cur
           /\ pstat' = IF r.raise THEN "raised" ELSE "parsing"
           /\ ri' = ri + 1
    /\ UNCHANGED <<rows, mvars>>

ParseEnd ==
    /\ pstat = "parsing"
    /\ ri > Len(rows)
    /\ data' = FinalData(data, current_question)
    /\ pstat' = "returned"
    /\ UNCHANGED <<rows, ri, current_question, mvars>>

NextParse == ParseRow \/ ParseEnd

vars == <<rows, ri, current_question, data, pstat, args, input_file, pc, texts, qi, ci,
          clue_clips, vidcache, audio_files, text_files, run, events, outcome>>

SpecParse == InitParse /\ [][NextParse]_vars

----------------------------------------------------------------------------
(* Constants and helpers of main *)

ERR_VIDEO_PATH == [dir |-> "", file |-> <<"_err_video_path">>]
VIDCACHE_DIR == "vidcache"
FadeMs == 750

NoFunction == [k \in {} |-> {}]
WriteFile(dir, name, content) ==
    [k \in DOMAIN dir \cup {name} |-> IF k = name THEN content ELSE dir[k]]
is_file(dir, name) == name \in DOMAIN dir

RECURSIVE Flatten(_)
Flatten(ss) == IF ss = <<>> THEN <<>> ELSE Head(ss) \o Flatten(Tail(ss))

\* pathlib's suffix of a file name: from the last dot, unless that dot is the
\* first or the last character.
RECURSIVE LastDot(_, _)
LastDot(name, k) == IF k = 0 THEN 0 ELSE IF name[k] = "." THEN k ELSE LastDot(name, k - 1)

with_suffix_mp3(name) ==
    LET d == LastDot(name, Len(name))
        stem == IF 1 < d /\ d < Len(name) THEN SubSeq(name, 1, d - 1) ELSE name
    IN  stem \o <<".", "m", "p", "3">>

\* Line 132: the audio file of a question id in the output directory.
question_audio_path(qid) == with_suffix_mp3(qid)

\* Line 129: list(dict.fromkeys(...)), the descriptions without repeats.
RECURSIVE Dedup(_, _)
Dedup(seen, s) ==
    IF s = <<>> THEN seen
    ELSE Dedup(IF \E k \in 1..Len(seen) : seen[k] = Head(s) THEN seen ELSE Append(seen, Head(s)),
               Tail(s))

Descriptions(clues) == [k \in 1..Len(clues) |-> clues[k].description]

RECURSIVE Reverse(_)
Reverse(s) == IF s = <<>> THEN <<>> ELSE Append(Reverse(Tail(s)), Head(s))

\* A variant that keeps the last occurrence of a repeated description.
unique_clues_KeepLast(question) == Reverse(Dedup(<<>>, Reverse(Descriptions(question.clues))))

unique_clues(question) == Dedup(<<>>, Descriptions(question.clues))

\* Line 130: the transcript entry of a question.
TextEntry(question) ==
    [question_id |-> question.qid, question |-> question.question,
     answer |-> question.answer, clues |-> unique_clues(question)]

\* Line 126: the question is passed over. With neither --all nor --qs,
\* args.qs is None and the membership test raises TypeError.
SelectionRaises == ~args.all /\ ~args.qs_given
Selected(question) == args.all \/ question.qid \in args.qs

----------------------------------------------------------------------------
(* get_video_path_for_clue *)

Marker == "watch?v="

\* Line 93: partition(Marker)[-1], the text after the first marker, empty when
\* the link holds no marker.
RECURSIVE youtube_video_id(_)
youtube_video_id(link) ==
    IF link = <<>> THEN <<>>
    ELSE IF Head(link) = Marker THEN Tail(link)
    ELSE youtube_video_id(Tail(link))

\* A variant that looks the cached file up under the whole link.
CacheHit_ByLink(cache, link) == link # <<>> /\ link \in cache

\* Lines 94-95: the cached file is looked up under the video id; with an
\* empty id the path is VIDCACHE_DIR itself, a directory, never a file.
CacheHit(cache, link) ==
    youtube_video_id(link) # <<>> /\ youtube_video_id(link) \in cache

expected_cached_video_path(link) == [dir |-> VIDCACHE_DIR, file |-> youtube_video_id(link)]

\* Lines 100-101: the name download() stores the stream under: the video id,
\* or, the id being empty, the stream's own default name.
DownloadName(link) ==
    IF youtube_video_id(link) # <<>> THEN youtube_video_id(link) ELSE <<"title">> \o link

DownloadedPath(link) == [dir |-> VIDCACHE_DIR, file |-> DownloadName(link)]

\* What a call of the Fetcher (lines 100-101) can end in: a stored file, a
\* PytubeError, first() returning None (AttributeError on .download), or an
\* error of the transport (urllib).
FetchOutcomes == {"ok", "PytubeError", "AttributeError", "URLError"}

\* Line 102: the one exception class the except clause names.
Caught(o) == o = "PytubeError"

----------------------------------------------------------------------------
(* process_clip *)

Min(a, b) == IF a < b THEN a ELSE b

\* A variant of the slice that is not cut at the end of the file.
process_clip_NoCut(video_path, start, length) ==
    [file |-> video_path.file,
     from |-> start * 1000,
     to |-> start * 1000 + length * 1000,
     fade |-> FadeMs]

\* Lines 110-114: the slice [start, start + length) of the decoded file, in
\* milliseconds, cut at the end of the file, with both fades.
process_clip(video_path, start, length) ==
    LET total == MediaLenSec * 1000
        start_time == start * 1000
        end_time == start_time + length * 1000
    IN  [file |-> video_path.file,
         from |-> Min(start_time, total),
         to |-> Min(end_time, total),
         fade |-> FadeMs]

\* A variant that extracts a repeated clip once.
question_audio_Unique(clips) ==
    LET u == Dedup(<<>>, clips)
    IN  [k \in 1..Len(u) |-> process_clip(u[k].video_path, u[k].start, u[k].length)]

\* Lines 148-150: the clips of a question, extracted and concatenated.
question_audio(clips) ==
    [k \in 1..Len(clips) |-> process_clip(clips[k].video_path, clips[k].start, clips[k].length)]

RECURSIVE duration_ms(_)
duration_ms(audio) ==
    IF audio = <<>> THEN 0 ELSE (Head(audio).to - Head(audio).from) + duration_ms(Tail(audio))

----------------------------------------------------------------------------
(* The transcripts, lines 160-175 *)

NL == <<"\n">>

QuestionsText(ts) ==
    Flatten([k \in 1..Len(ts) |->
        ts[k].question_id \o <<".", " ">> \o ts[k].question \o NL \o NL])

AnswersText(ts) ==
    Flatten([k \in 1..Len(ts) |->
        ts[k].question_id \o <<".", " ", "A", "N", "S", "W", "E", "R", ":", " ">>
            \o ts[k].answer \o NL
            \o Flatten([c \in 1..Len(ts[k].clues) |-> ts[k].clues[c] \o NL])
            \o NL])

----------------------------------------------------------------------------
(* The inputs of main *)

L1 == <<"a/", Marker, "v1">>
L2 == <<"c/v2">>
Links == {L1, L2}

Clue(d, l, s, n) == [description |-> d, link |-> l, start |-> s, length |-> n]

RunClues ==
    { Clue(<<"x">>, L1, 0, 1),
      Clue(<<"x">>, L2, MediaLenSec - 1, 2),     \* runs past the end of the video
      Clue(<<"y">>, L1, MediaLenSec, 1) }        \* starts where the video ends

SeqsOfLen(S, n) == { s \in SeqsUpTo(S, n) : Len(s) = n }

QuestionsWith(ids, n) ==
    { [qid |-> q, question |-> <<"p">>, answer |-> <<"a">>, clues |-> c] :
        q \in ids, c \in SeqsOfLen(RunClues, n) }

\* Question lists of at most n items, an item being a question or a clue,
\* the first question taking its id from ids.
RECURSIVE DataOf(_, _)
DataOf(ids, n) ==
    IF n = 0 THEN {<<>>}
    ELSE {<<>>} \cup UNION { { <<q>> \o d : q \in QuestionsWith(ids, k),
                                            d \in DataOf({QID1, QID2}, n - 1 - k) } :
                             k \in 0..(n - 1) }

\* The ids are interchangeable: the first question is Q1, and the command
\* line names either id.
DataSet == DataOf({QID1}, MaxItems)

ArgSet ==
    { [all |-> a, qs_given |-> qs # {}, qs |-> qs, overwrite |-> o] :
        a \in BOOLEAN, qs \in {{}, {QID1}, {QID2}}, o \in BOOLEAN }

----------------------------------------------------------------------------
(* main *)

ParseIdle ==
    /\ rows = <<>> /\ ri = 1
    /\ current_question = generate_empty_question
    /\ pstat = "idle"

Init ==
    /\ ParseIdle
    /\ args \in ArgSet
    /\ input_file \in DataSet
    /\ data = <<>>
    /\ pc = "start"
    /\ texts = <<>> /\ qi = 1 /\ ci = 1 /\ clue_clips = <<>>
    /\ vidcache = {}
    /\ audio_files = NoFunction /\ text_files = NoFunction
    /\ run = 1 /\ events = <<>> /\ outcome = <<>>

Event(kind, link, result) == [run |-> run, q |-> qi, kind |-> kind, link |-> link, result |-> result]

\* Lines 22-35: --qs together with --all is refused.
ParseArgs ==
    /\ pc = "start"
    /\ pc' = IF args.qs_given /\ args.all THEN "rejected" ELSE "read"
    /\ UNCHANGED <<pvars, data, args, input_file, texts, qi, ci, clue_clips, vidcache,
                   audio_files, text_files, run, events, outcome>>

\* Lines 122-124.
ReadFile ==
    /\ pc = "read"
    /\ data' = input_file
    /\ texts' = <<>>
    /\ qi' = 1
    /\ pc' = "loop"
    /\ UNCHANGED <<pvars, args, input_file, ci, clue_clips, vidcache, audio_files,
                   text_files, run, events, outcome>>

\* Line 126 with args.qs None.
SelectionTypeError ==
    /\ pc = "loop" /\ qi <= Len(data)
    /\ SelectionRaises
    /\ pc' = "crashed"
    /\ UNCHANGED <<pvars, data, args, input_file, texts, qi, ci, clue_clips, vidcache,
                   audio_files, text_files, run, events, outcome>>

\* Lines 126-127.
NotSelected ==
    /\ pc = "loop" /\ qi <= Len(data)
    /\ ~SelectionRaises
    /\ ~Selected(data[qi])
    /\ qi' = qi + 1
    /\ UNCHANGED <<pvars, data, args, input_file, pc, texts, ci, clue_clips, vidcache,
                   audio_files, text_files, run, events, outcome>>

\* A variant that tests the path before .mp3 is put on it.
SkipsExisting_NoSuffix(question) == is_file(audio_files, question.qid) /\ ~args.overwrite

\* Line 133.
SkipsExisting(question) ==
    is_file(audio_files, question_audio_path(question.qid)) /\ ~args.overwrite

\* Lines 129-136.
SkipExisting ==
    /\ pc = "loop" /\ qi <= Len(data)
    /\ ~SelectionRaises
    /\ Selected(data[qi])
    /\ texts' = Append(texts, TextEntry(data[qi]))
    /\ SkipsExisting(data[qi])
    /\ outcome' = Append(outcome, [q |-> qi, is |-> "SkippedExisting"])
    /\ qi' = qi + 1
    /\ UNCHANGED <<pvars, data, args, input_file, pc, ci, clue_clips, vidcache,
                   audio_files, text_files, run, events>>

\* Lines 129-139.
BeginQuestion ==
    /\ pc = "loop" /\ qi <= Len(data)
    /\ ~SelectionRaises
    /\ Selected(data[qi])
    /\ texts' = Append(texts, TextEntry(data[qi]))
    /\ ~SkipsExisting(data[qi])
    /\ clue_clips' = <<>>
    /\ ci' = 1
    /\ pc' = "clues"
    /\ UNCHANGED <<pvars, data, args, input_file, qi, vidcache, audio_files, text_files,
                   run, events, outcome>>

Clip(video_path, clue) == [video_path |-> video_path, start |-> clue.start, length |-> clue.length]

\* Lines 141-145 with lines 94-96: the file is in the cache.
ResolveCached ==
    /\ pc = "clues" /\ ci <= Len(data[qi].clues)
    /\ LET clue == data[qi].clues[ci] IN
        /\ CacheHit(vidcache, clue.link)
        /\ clue_clips' = Append(clue_clips, Clip(expected_cached_video_path(clue.link), clue))
        /\ events' = Append(events, Event("hit", clue.link, expected_cached_video_path(clue.link)))
    /\ ci' = ci + 1
    /\ UNCHANGED <<pvars, data, args, input_file, pc, texts, qi, vidcache, audio_files,
                   text_files, run, outcome>>

\* Lines 141-145 with lines 99-107: the Fetcher is called and stores the file.
FetchOk ==
    /\ pc = "clues" /\ ci <= Len(data[qi].clues)
    /\ LET clue == data[qi].clues[ci] IN
        /\ ~CacheHit(vidcache, clue.link)
        /\ vidcache' = vidcache \cup {DownloadName(clue.link)}
        /\ clue_clips' = Append(clue_clips, Clip(DownloadedPath(clue.link), clue))
        /\ events' = Append(events, Event("fetch", clue.link, DownloadedPath(clue.link)))
    /\ ci' = ci + 1
    /\ UNCHANGED <<pvars, data, args, input_file, pc, texts, qi, audio_files, text_files,
                   run, outcome>>

\* What get_video_path_for_clue does with a failure o of the Fetcher:
\* ERR_VIDEO_PATH when the except clause catches it, else it propagates.
FailureResult(o) == IF Caught(o) THEN "returns" ELSE "raises"

\* Lines 141-144 with lines 102-105: the Fetcher fails.
FetchFails ==
    /\ pc = "clues" /\ ci <= Len(data[qi].clues)
    /\ LET clue == data[qi].clues[ci] IN
        /\ ~CacheHit(vidcache, clue.link)
        /\ \E o \in FetchOutcomes \ {"ok"} :
            IF FailureResult(o) = "returns"
            THEN /\ events' = Append(events, Event("fetch", clue.link, ERR_VIDEO_PATH))
                 /\ ci' = ci + 1
                 /\ pc' = pc
            ELSE /\ events' = Append(events, Event("fetch", clue.link, [dir |-> "", file |-> <<o>>]))
                 /\ ci' = ci
                 /\ pc' = "crashed"
    /\ UNCHANGED <<pvars, data, args, input_file, texts, qi, clue_clips, vidcache,
                   audio_files, text_files, run, outcome>>

\* Line 153: nothing to export.
NothingToExport(audio) == duration_ms(audio) <= 0

\* Lines 147-155: no audio was assembled.
NoAudio ==
    /\ pc = "clues" /\ ci > Len(data[qi].clues)
    /\ NothingToExport(question_audio(clue_clips))
    /\ events' = events \o [k \in 1..Len(clue_clips) |-> Event("extract", <<>>, clue_clips[k].video_path)]
    /\ outcome' = Append(outcome, [q |-> qi, is |-> "NoCluesResolved"])
    /\ qi' = qi + 1
    /\ pc' = "loop"
    /\ UNCHANGED <<pvars, data, args, input_file, texts, ci, clue_clips, vidcache,
                   audio_files, text_files, run>>

\* Lines 147-157: the audio is exported.
ExportAudio ==
    /\ pc = "clues" /\ ci > Len(data[qi].clues)
    /\ ~NothingToExport(question_audio(clue_clips))
    /\ events' = events \o [k \in 1..Len(clue_clips) |-> Event("extract", <<>>, clue_clips[k].video_path)]
    /\ audio_files' = WriteFile(audio_files, question_audio_path(data[qi].qid),
                                question_audio(clue_clips))
    /\ outcome' = Append(outcome, [q |-> qi, is |-> "Exported"])
    /\ qi' = qi + 1
    /\ pc' = "loop"
    /\ UNCHANGED <<pvars, data, args, input_file, texts, ci, clue_clips, vidcache,
                   text_files, run>>

\* A variant that writes the transcripts whatever the selection.
WritesTranscripts_Always == TRUE

\* Line 160: the transcripts are written for --all only.
WritesTranscripts == args.all

\* Lines 159-175.
WriteTranscripts ==
    /\ pc = "loop" /\ qi > Len(data)
    /\ text_files' =
         IF WritesTranscripts
         THEN WriteFile(WriteFile(text_files, "questions.txt", QuestionsText(texts)),
                        "answers.txt", AnswersText(texts))
         ELSE text_files
    /\ pc' = "done"
    /\ UNCHANGED <<pvars, data, args, input_file, texts, qi, ci, clue_clips, vidcache,
                   audio_files, run, events, outcome>>

\* The program is started again on the same input with the same command line;
\* the cache and the output directory are what the earlier run left.
Rerun ==
    /\ pc = "done"
    /\ run < MaxRuns
    /\ run' = run + 1
    /\ pc' = "start"
    /\ data' = <<>> /\ texts' = <<>> /\ qi' = 1 /\ ci' = 1 /\ clue_clips' = <<>>
    /\ outcome' = <<>>
    /\ UNCHANGED <<pvars, args, input_file, vidcache, audio_files, text_files, events>>

Next ==
    \/ ParseArgs
    \/ ReadFile
    \/ SelectionTypeError
    \/ NotSelected
    \/ SkipExisting
    \/ BeginQuestion
    \/ ResolveCached
    \/ FetchOk
    \/ FetchFails
    \/ NoAudio
    \/ ExportAudio
    \/ WriteTranscripts
    \/ Rerun

Spec == Init /\ [][Next]_vars

----------------------------------------------------------------------------
(* main on a .csv input file: read_file hands the rows to parse_csv *)

CsvRows ==
    { BlankRow,
      Row(QID1, <<"x">>, L1, <<"0">>, <<"1">>),
      Row(E, <<"y">>, L1, <<"0">>, <<"1">>),            \* no id of its own
      Row(QID2, <<"x">>, L1, <<"a">>, <<"1">>) }        \* non-numeric start

InitCsv ==
    /\ rows \in SeqsUpTo(CsvRows, MaxRows)
    /\ ri = 1
    /\ current_question = generate_empty_question
    /\ pstat = "idle"
    /\ args \in ArgSet
    /\ input_file = <<>>
    /\ data = <<>>
    /\ pc = "start"
    /\ texts = <<>> /\ qi = 1 /\ ci = 1 /\ clue_clips = <<>>
    /\ vidcache = {}
    /\ audio_files = NoFunction /\ text_files = NoFunction
    /\ run = 1 /\ events = <<>> /\ outcome = <<>>

\* Lines 122 and 82-90: read_file opens the .csv file and calls parse_csv.
OpenCsv ==
    /\ pc = "read"
    /\ pstat = "idle"
    /\ pstat' = "parsing"
    /\ UNCHANGED <<rows, ri, current_question, data, mvars>>

\* A variant of main that goes on with the questions read so far when
\* parse_csv raises.
AfterRead_KeepGoing(st) == "loop"

\* Line 122: an exception of read_file is not handled in main, it ends the
\* program; otherwise main goes on to its loop.
AfterRead(st) == IF st = "raised" THEN "crashed" ELSE "loop"

\* Lines 122-124: read_file returns or raises.
ReadFileCsv ==
    /\ pc = "read"
    /\ pstat \in {"returned", "raised"}
    /\ pc' = AfterRead(pstat)
    /\ texts' = <<>>
    /\ qi' = 1
    /\ UNCHANGED <<pvars, data, args, input_file, ci, clue_clips, vidcache, audio_files,
                   text_files, run, events, outcome>>

NextCsv ==
    \/ ParseArgs
    \/ OpenCsv
    \/ ParseRow
    \/ ParseEnd
    \/ ReadFileCsv
    \/ SelectionTypeError
    \/ NotSelected
    \/ SkipExisting
    \/ BeginQuestion
    \/ ResolveCached
    \/ FetchOk
    \/ FetchFails
    \/ NoAudio
    \/ ExportAudio
    \/ WriteTranscripts

SpecCsv == InitCsv /\ [][NextCsv]_vars

----------------------------------------------------------------------------
(* Blocks of a row sequence, as the record format defines them: maximal    *)
(* runs of non-blank rows, ended by a blank row or by a row whose          *)
(* non-empty id differs from the id of the block's first row.              *)

RowIsBlank(r) == r = BlankRow

RowIsClue(r) ==
    /\ ~RowIsBlank(r)
    /\ ~(Len(r.desc) >= 2 /\ r.desc[1] = "Q" /\ r.desc[2] = ":")
    /\ ~(Len(r.desc) >= 2 /\ r.desc[1] = "A" /\ r.desc[2] = ":")

RECURSIVE IsBlockStart(_, _), BlockStartOf(_, _)
IsBlockStart(rs, k) ==
    /\ ~RowIsBlank(rs[k])
    /\ \/ k = 1
       \/ RowIsBlank(rs[k - 1])
       \/ rs[k].qid # E /\ rs[k].qid # rs[BlockStartOf(rs, k - 1)].qid

BlockStartOf(rs, k) == IF IsBlockStart(rs, k) THEN k ELSE BlockStartOf(rs, k - 1)

NumBlocks(rs) == Cardinality({k \in 1..Len(rs) : IsBlockStart(rs, k)})

\* The rows of the block that is still open when the input ends.
TrailingBlock(rs) ==
    IF rs = <<>> \/ RowIsBlank(rs[Len(rs)]) THEN <<>>
    ELSE SubSeq(rs, BlockStartOf(rs, Len(rs)), Len(rs))

NumClueRows(rs) == Cardinality({k \in 1..Len(rs) : RowIsClue(rs[k])})

----------------------------------------------------------------------------
(* C1: whenever parse_csv returns, the number of Questions equals the      *)
(* number of non-empty blocks of the input.  The source drops a last block *)
(* that has no clue row when the input ends without a blank row, so this   *)
(* is violated, e.g. by the single row (Q1, "Q: p").                       *)
C1_CountEqualsBlocks == pstat = "returned" => Len(data) = NumBlocks(rows)

(* C6: the end of parse_csv appends the pending accumulator exactly when   *)
(* it holds a clue; a trailing block with a clue row and no blank row      *)
(* after it is the last Question returned, under the id of its first row   *)
(* and with all its clue rows.                                             *)
C6_EndStep ==
    (pstat = "parsing" /\ pstat' = "returned") =>
        data' = IF current_question.clues # <<>>
                THEN Append(data, current_question) ELSE data

C6_TrailingIncluded ==
    (pstat = "returned" /\ NumClueRows(TrailingBlock(rows)) > 0) =>
        /\ data # <<>>
        /\ data[Len(data)].qid = TrailingBlock(rows)[1].qid
        /\ Len(data[Len(data)].clues) = NumClueRows(TrailingBlock(rows))

C6_TrailingAccumulator == [][C6_EndStep]_vars /\ []C6_TrailingIncluded

C6_Witness ==
    /\ pstat = "returned"
    /\ Len(rows) >= 2
    /\ NumClueRows(TrailingBlock(rows)) > 0
    /\ Len(data) = 2
    /\ data[2] = current_question

(* C7: a row whose non-empty id differs from the open block's id closes    *)
(* that block (the accumulator is appended as it stands) and, unless the   *)
(* row itself is rejected, the row becomes the first row of a fresh block  *)
(* with the new id and its content is kept; the rows (Q1, x), (Q2, y)      *)
(* give two Questions of one clue each.                                    *)
C7_IdChangeRow ==
    /\ pstat = "parsing"
    /\ ri <= Len(rows)
    /\ current_question.qid # None
    /\ rows[ri].qid # E
    /\ rows[ri].qid # current_question.qid

C7_Step ==
    (C7_IdChangeRow /\ ri' = ri + 1) =>
        /\ data' = Append(data, current_question)
        /\ pstat' = "parsing" =>
             /\ current_question'.qid = rows[ri].qid
             /\ IF RowIsClue(rows[ri])
                THEN /\ Len(current_question'.clues) = 1
                     /\ current_question'.clues[1].description = rows[ri].desc
                     /\ current_question'.clues[1].link = rows[ri].link
                     /\ current_question'.question = E
                     /\ current_question'.answer = E
                ELSE /\ current_question'.clues = <<>>
                     /\ current_question'.question # E \/ current_question'.answer # E

C7_Example ==
    (/\ pstat = "returned"
     /\ rows = <<Row(QID1, <<"x">>, LinkText, <<"0">>, <<"5">>),
                 Row(QID2, <<"y">>, LinkText, <<"0">>, <<"5">>)>>) =>
        /\ Len(data) = 2
        /\ data[1].qid = QID1 /\ Len(data[1].clues) = 1
        /\ data[1].clues[1].description = <<"x">>
        /\ data[2].qid = QID2 /\ Len(data[2].clues) = 1
        /\ data[2].clues[1].description = <<"y">>

C7_IdChangeClosesBlock == [][C7_Step]_vars /\ []C7_Example

C7_Witness ==
    /\ pstat = "parsing"
    /\ ri = 3
    /\ rows[1].qid = QID1 /\ RowIsClue(rows[1])
    /\ rows[2].qid = QID2 /\ RowIsClue(rows[2])
    /\ Len(data) = 1 /\ data[1].qid = QID1
    /\ current_question.qid = QID2
    /\ Len(current_question.clues) = 1

----------------------------------------------------------------------------
(* What the claims about main speak of, read off the observations.         *)

\* The resolutions (cache hits and Fetcher calls) made for question q in
\* run r, in order: the k-th is the resolution of the question's k-th clue.
ResEvents(r, q) ==
    LET Test(e) == e.run = r /\ e.q = q /\ e.kind \in {"hit", "fetch"}
    IN  SelectSeq(events, Test)

ExtractEvents(r, q) ==
    LET Test(e) == e.run = r /\ e.q = q /\ e.kind = "extract"
    IN  SelectSeq(events, Test)

\* The resolutions of one source reference, over all runs, in order.
ResolutionsOf(link) ==
    LET Test(e) == e.link = link /\ e.kind \in {"hit", "fetch"}
    IN  SelectSeq(events, Test)

Succeeded(e) == e.result.dir = VIDCACHE_DIR
HasVideoId(link) == \E k \in 1..(Len(link) - 1) : link[k] = Marker

AudioPathOf(qid) == qid \o <<".", "m", "p", "3">>

IsSelected(q) == args.all \/ (args.qs_given /\ data[q].qid \in args.qs)

\* The segment the clue's time range cuts out of a file: [start, start +
\* length) seconds, no further than the end of the file.
SegmentOf(file, clue) ==
    [file |-> file,
     from |-> IF clue.start < MediaLenSec THEN clue.start * 1000 ELSE MediaLenSec * 1000,
     to |-> IF clue.start + clue.length < MediaLenSec
            THEN (clue.start + clue.length) * 1000 ELSE MediaLenSec * 1000,
     fade |-> 750]

\* The segments of the clues of question q whose resolution succeeded, in
\* clue order, repeats kept.
RECURSIVE SegmentsFrom(_, _, _)
SegmentsFrom(res, clues, k) ==
    IF k > Len(clues) THEN <<>>
    ELSE (IF Succeeded(res[k]) THEN <<SegmentOf(res[k].result.file, clues[k])>> ELSE <<>>)
         \o SegmentsFrom(res, clues, k + 1)

ExpectedAudio(r, q) == SegmentsFrom(ResEvents(r, q), data[q].clues, 1)

OutcomeAdded(kind) ==
    /\ Len(outcome') = Len(outcome) + 1
    /\ outcome'[Len(outcome')] = [q |-> qi, is |-> kind]

----------------------------------------------------------------------------
(* C2: resolving the same source reference twice calls the Fetcher at most *)
(* once, whatever the first outcome, and the second resolution returns     *)
(* what the first returned.  The source keeps no record of a failure, so   *)
(* this is violated when the first fetch fails and the link is met again.  *)
C2_AtMostOneFetch ==
    \A l \in Links :
        LET r == ResolutionsOf(l) IN
        /\ Cardinality({k \in 1..Len(r) : r[k].kind = "fetch"}) <= 1
        /\ \A k \in 2..Len(r) : r[k].result = r[1].result

(* C2, amended: once a resolution of a reference that carries a video id   *)
(* has succeeded, every later resolution of that reference, in the same    *)
(* run or in a later run on the same cache, calls no Fetcher and returns   *)
(* the path of the same cached file.                                       *)
C2_NoFetchAfterSuccess ==
    \A l \in Links :
        LET r == ResolutionsOf(l) IN
        \A i, j \in 1..Len(r) :
            (i < j /\ Succeeded(r[i]) /\ HasVideoId(l)) =>
                (r[j].kind = "hit" /\ r[j].result = r[i].result)

C2_Witness ==
    \E i, j \in 1..Len(events) :
        /\ i < j
        /\ events[i].kind = "fetch" /\ events[i].link = L1 /\ Succeeded(events[i])
        /\ events[j].kind = "hit" /\ events[j].link = L1
        /\ events[j].run > events[i].run

(* C3: a selected question whose audio file exists, with overwrite off, is *)
(* skipped: its iteration ends as SkippedExisting, makes no resolution,    *)
(* Fetcher or extraction call, leaves the cache and every audio file as    *)
(* they were and still adds the question's transcript entry.               *)
C3_Pre ==
    /\ pc = "loop" /\ qi <= Len(data)
    /\ IsSelected(qi)
    /\ ~args.overwrite
    /\ AudioPathOf(data[qi].qid) \in DOMAIN audio_files

C3_Step ==
    C3_Pre =>
        /\ OutcomeAdded("SkippedExisting")
        /\ events' = events
        /\ audio_files' = audio_files
        /\ vidcache' = vidcache
        /\ Len(texts') = Len(texts) + 1
        /\ texts'[Len(texts')].question_id = data[qi].qid
        /\ qi' = qi + 1 /\ pc' = "loop"

C3_SkippedNoCalls ==
    \A k \in 1..Len(outcome) :
        outcome[k].is = "SkippedExisting" =>
            /\ ResEvents(run, outcome[k].q) = <<>>
            /\ ExtractEvents(run, outcome[k].q) = <<>>

C3_SkipExisting == [][C3_Step]_vars /\ []C3_SkippedNoCalls

C3_Witness ==
    /\ outcome # <<>>
    /\ outcome[Len(outcome)].is = "SkippedExisting"
    /\ data[outcome[Len(outcome)].q].clues # <<>>
    /\ texts # <<>>
    /\ texts[Len(texts)].question_id = data[outcome[Len(outcome)].q].qid

(* C4: a question that is not skipped and whose every clue fails retrieval *)
(* ends as NoCluesResolved and the run goes on with the next question.     *)
(* A failure of the Fetcher that is no PytubeError leaves                  *)
(* get_video_path_for_clue as an exception (see C10) and ends the run in   *)
(* the middle of the question.                                             *)
C4_AllFailed(q) ==
    LET r == ResEvents(run, q) IN
    /\ Len(r) = Len(data[q].clues)
    /\ r # <<>>
    /\ \A k \in 1..Len(r) : ~Succeeded(r[k])

C4_AllFailedIsNoCluesResolved ==
    \A q \in 1..Len(data) :
        C4_AllFailed(q) =>
            /\ ~(pc = "crashed" /\ qi = q)
            /\ qi > q => \E k \in 1..Len(outcome) : outcome[k] = [q |-> q, is |-> "NoCluesResolved"]

(* C5: what is exported for a question is the concatenation of the         *)
(* segments of exactly the clues whose resolution succeeded, in clue       *)
(* order, repeated clues included; a clue that comes back as               *)
(* ERR_VIDEO_PATH is passed over and the next clue is resolved.            *)
C5_ExportStep ==
    (pc = "clues" /\ OutcomeAdded("Exported")) =>
        /\ Len(ResEvents(run, qi)) = Len(data[qi].clues)
        /\ AudioPathOf(data[qi].qid) \in DOMAIN audio_files'
        /\ audio_files'[AudioPathOf(data[qi].qid)] = ExpectedAudio(run, qi)
        /\ \A f \in DOMAIN audio_files \ {AudioPathOf(data[qi].qid)} :
              f \in DOMAIN audio_files' /\ audio_files'[f] = audio_files[f]

C5_UnresolvedStep ==
    (/\ Len(events') = Len(events) + 1
     /\ events'[Len(events')].kind = "fetch"
     /\ events'[Len(events')].result = ERR_VIDEO_PATH) =>
        /\ pc' = "clues"
        /\ ci' = ci + 1
        /\ clue_clips' = clue_clips
        /\ qi' = qi

C5_ExportedAudio == [][C5_ExportStep /\ C5_UnresolvedStep]_vars

C5_Witness ==
    \E k \in 1..Len(outcome) :
        LET q == outcome[k].q IN
        /\ outcome[k].is = "Exported"
        /\ Len(data[q].clues) = 3
        /\ data[q].clues[1] = data[q].clues[3]
        /\ ResEvents(run, q)[2].result = ERR_VIDEO_PATH
        /\ Len(audio_files[AudioPathOf(data[q].qid)]) = 2
        /\ audio_files[AudioPathOf(data[q].qid)][1] = audio_files[AudioPathOf(data[q].qid)][2]

----------------------------------------------------------------------------
(* The questions whose iteration has begun in this run, and the transcript *)
(* the record format prescribes for them.                                  *)

Begun(q) ==
    /\ q \in 1..Len(data)
    /\ IsSelected(q)
    /\ q < qi \/ (q = qi /\ pc \in {"clues", "crashed"})

BegunSet == {q \in 1..Len(data) : Begun(q)}

NthBegun(k) == CHOOSE q \in BegunSet : Cardinality({p \in BegunSet : p < q}) = k - 1

DescriptionsOf(q) == [k \in 1..Len(data[q].clues) |-> data[q].clues[k].description]

FirstIndex(d, x) == CHOOSE k \in 1..Len(d) : d[k] = x /\ \A j \in 1..(k - 1) : d[j] # x

IsFirstOccurrenceList(u, d) ==
    /\ \A i, j \in 1..Len(u) : i # j => u[i] # u[j]
    /\ {u[k] : k \in 1..Len(u)} = {d[k] : k \in 1..Len(d)}
    /\ \A i, j \in 1..Len(u) : i < j => FirstIndex(d, u[i]) < FirstIndex(d, u[j])

RECURSIVE FirstOccurrences(_, _)
FirstOccurrences(d, k) ==
    IF k > Len(d) THEN <<>>
    ELSE (IF \E j \in 1..(k - 1) : d[j] = d[k] THEN <<>> ELSE <<d[k]>>)
         \o FirstOccurrences(d, k + 1)

RECURSIVE Lines(_)
Lines(ss) == IF ss = <<>> THEN <<>> ELSE Head(ss) \o <<"\n">> \o Lines(Tail(ss))

QuestionsEntry(q) == data[q].qid \o <<".", " ">> \o data[q].question \o <<"\n", "\n">>

AnswersEntry(q) ==
    data[q].qid \o <<".", " ", "A", "N", "S", "W", "E", "R", ":", " ">> \o data[q].answer
        \o <<"\n">> \o Lines(FirstOccurrences(DescriptionsOf(q), 1)) \o <<"\n">>

RECURSIVE ExpectedText(_, _)
ExpectedText(Entry(_), q) ==
    IF q > Len(data) THEN <<>>
    ELSE (IF IsSelected(q) THEN Entry(q) ELSE <<>>) \o ExpectedText(Entry, q + 1)

----------------------------------------------------------------------------
(* C8: the transcript clue list of a question holds each distinct          *)
(* description once, in the order of first occurrence (x, y, x gives x, y), *)
(* while every clue of the question, repeated ones included, is resolved   *)
(* and every resolved one is extracted.                                    *)
C8_DedupFirstOccurrence ==
    /\ Len(texts) = Cardinality(BegunSet)
    /\ \A k \in 1..Len(texts) :
        LET q == NthBegun(k)
            d == DescriptionsOf(q)
        IN  /\ texts[k].question_id = data[q].qid
            /\ IsFirstOccurrenceList(texts[k].clues, d)
            /\ d = << <<"x">>, <<"y">>, <<"x">> >> => texts[k].clues = << <<"x">>, <<"y">> >>
            /\ (\E o \in 1..Len(outcome) :
                    outcome[o].q = q /\ outcome[o].is \in {"Exported", "NoCluesResolved"}) =>
                  /\ Len(ResEvents(run, q)) = Len(d)
                  /\ Len(ExtractEvents(run, q)) =
                        Cardinality({j \in 1..Len(d) : Succeeded(ResEvents(run, q)[j])})

C8_Witness ==
    \E k \in 1..Len(texts) :
        /\ texts[k].clues = << <<"x">>, <<"y">> >>
        /\ DescriptionsOf(NthBegun(k)) = << <<"x">>, <<"y">>, <<"x">> >>
        /\ Len(ResEvents(run, NthBegun(k))) = 3
        /\ Len(ExtractEvents(run, NthBegun(k))) = 3
        /\ outcome # <<>> /\ outcome[1].is = "Exported"

(* C9: when a run completes, both transcripts have been written with one   *)
(* entry, in processing order, for each selected question and for no       *)
(* other, whichever way the questions were selected.  The source writes    *)
(* the transcripts under --all only, so a run selecting by id violates it. *)
C9_TranscriptsWritten ==
    (pc = "done" /\ (args.all \/ args.qs_given)) =>
        /\ "questions.txt" \in DOMAIN text_files
        /\ "answers.txt" \in DOMAIN text_files
        /\ text_files["questions.txt"] = ExpectedText(QuestionsEntry, 1)
        /\ text_files["answers.txt"] = ExpectedText(AnswersEntry, 1)

(* C9, amended: when a run completes, one transcript entry has been        *)
(* collected, in processing order, for each selected question and for no   *)
(* other, whatever the audio outcome of each; with process-all both        *)
(* transcripts have been written from these entries, and with a selection  *)
(* by id no transcript is written.                                         *)
C9_TranscriptsWrittenForAll ==
    pc = "done" =>
        /\ Len(texts) = Cardinality(BegunSet)
        /\ \A k \in 1..Len(texts) : texts[k].question_id = data[NthBegun(k)].qid
        /\ BegunSet = {q \in 1..Len(data) : IsSelected(q)}
        /\ IF args.all
           THEN /\ DOMAIN text_files = {"questions.txt", "answers.txt"}
                /\ text_files["questions.txt"] = ExpectedText(QuestionsEntry, 1)
                /\ text_files["answers.txt"] = ExpectedText(AnswersEntry, 1)
           ELSE DOMAIN text_files = {}

C9_Witness ==
    /\ pc = "done"
    /\ args.all
    /\ Len(data) = 2
    /\ Len(outcome) = 2
    /\ outcome[1].is = "SkippedExisting"
    /\ outcome[2].is = "NoCluesResolved"
    /\ data[1].qid # data[2].qid
    /\ "answers.txt" \in DOMAIN text_files

(* C10: get_video_path_for_clue never raises: every failure of the Fetcher *)
(* comes back as ERR_VIDEO_PATH and the loop goes on with the next clue.   *)
(* The except clause names PytubeError only; first() returning None and an *)
(* error of the transport raise through main.                              *)
C10_ResolveNeverRaises ==
    /\ \A k \in 1..Len(events) :
          events[k].kind = "fetch" =>
              (Succeeded(events[k]) \/ events[k].result = ERR_VIDEO_PATH)
    /\ pc = "crashed" => (~args.all /\ ~args.qs_given)

----------------------------------------------------------------------------
(* C11: a structural error of the input (the first row of a block has no   *)
(* id, or a clue row has a non-numeric start or length) ends the run as    *)
(* soon as parse_csv raises: main never reaches its loop, the Fetcher is   *)
(* never called, and no audio file and no transcript is written, also for  *)
(* the questions that precede the malformed row.                           *)
C11_NonNumeric(s) ==
    \/ s = E
    \/ \E k \in 1..Len(s) : s[k] \notin Digits \cup {" ", "+", "-"}

C11_MalformedAt(rs, k) ==
    \/ IsBlockStart(rs, k) /\ rs[k].qid = E
    \/ RowIsClue(rs[k]) /\ (C11_NonNumeric(rs[k].start) \/ C11_NonNumeric(rs[k].length))

C11_Malformed(rs) == \E k \in 1..Len(rs) : C11_MalformedAt(rs, k)

C11_NothingDone ==
    /\ events = <<>>
    /\ outcome = <<>>
    /\ texts = <<>>
    /\ DOMAIN audio_files = {}
    /\ DOMAIN text_files = {}

C11_Inv ==
    /\ C11_Malformed(rows) => (pc \in {"start", "rejected", "read", "crashed"} /\ C11_NothingDone)
    /\ pstat = "raised" => (C11_Malformed(rows) /\ C11_NothingDone)
    /\ (C11_Malformed(rows) /\ pstat = "returned") => FALSE

C11_Step == (pstat = "raised" /\ pc = "read") => pc' = "crashed"

C11_ParseErrorEndsRun == [][C11_Step]_vars /\ []C11_Inv

C11_Witness ==
    /\ pc = "crashed"
    /\ pstat = "raised"
    /\ args.all
    /\ data # <<>>
    /\ data[1].clues # <<>>

----------------------------------------------------------------------------
(* C12: a non-blank row processed while the accumulator has no id (at the  *)
(* start, after a blank row, or because the row's own id has just closed   *)
(* the open block) makes parse_csv fail if the row's id field is empty,    *)
(* and otherwise becomes the accumulator's id; a row with an empty id      *)
(* inside an open block neither raises that error nor changes the id.      *)
(* As stated, with "empty" the empty field, this is violated: an id field  *)
(* of blanks only is rejected too, the test being made on the stripped     *)
(* field.                                                                  *)
C12_RowStep == pstat = "parsing" /\ ri <= Len(rows) /\ ri' = ri + 1 /\ ~RowIsBlank(rows[ri])

C12_NoId ==
    \/ current_question.qid = None
    \/ rows[ri].qid # E /\ rows[ri].qid # current_question.qid

C12_OnlyBlanks(s) == \A k \in 1..Len(s) : s[k] = " "

C12_NumberError ==
    RowIsClue(rows[ri]) /\ (C11_NonNumeric(rows[ri].start) \/ C11_NonNumeric(rows[ri].length))

C12_InsideBlock ==
    (~C12_NoId /\ rows[ri].qid = E) =>
        /\ current_question'.qid = current_question.qid
        /\ pstat' = "raised" => C12_NumberError

C12_StepAsStated ==
    C12_RowStep =>
        /\ C12_NoId =>
             IF rows[ri].qid = E
             THEN pstat' = "raised" /\ current_question'.qid = None
             ELSE current_question'.qid = rows[ri].qid
        /\ C12_InsideBlock

C12_IdOfFirstRow == [][C12_StepAsStated]_vars

(* C12, amended: the id field counts as missing when it is empty or holds  *)
(* blanks only; any other id becomes the accumulator's id, and is kept     *)
(* even if the row is then rejected for its numbers.                       *)
C12_StepStripped ==
    C12_RowStep =>
        /\ C12_NoId =>
             IF C12_OnlyBlanks(rows[ri].qid)
             THEN pstat' = "raised" /\ current_question'.qid = None
             ELSE /\ current_question'.qid = rows[ri].qid
                  /\ pstat' = "raised" => C12_NumberError
        /\ C12_InsideBlock

C12_IdOfFirstRowStripped == [][C12_StepStripped]_vars

C12_Witness ==
    /\ pstat = "raised"
    /\ ri = 4
    /\ rows[1].qid = QID1
    /\ rows[2].qid = E /\ ~RowIsBlank(rows[2])
    /\ rows[3].qid = <<" ">>
    /\ Len(data) = 1 /\ data[1].qid = QID1
    /\ current_question.qid = None

----------------------------------------------------------------------------
(* C13: every Question returned by parse_csv has a non-empty id, and no    *)
(* two Questions returned have the same id, also when one id heads two     *)
(* blocks of the input.  The source neither merges nor rejects such        *)
(* blocks: the rows (Q1, x), blank, (Q1, y) give two Questions with the    *)
(* id Q1, so the uniqueness is violated.                                   *)
C13_NonEmptyId(q) == q.qid # None /\ q.qid # E /\ ~C12_OnlyBlanks(q.qid)

C13_IdsNonEmptyAndUnique ==
    pstat = "returned" =>
        /\ \A j \in 1..Len(data) : C13_NonEmptyId(data[j])
        /\ \A j, k \in 1..Len(data) : j # k => data[j].qid # data[k].qid

(* C13, amended: every Question returned has a non-empty id, the id field  *)
(* of the first row of its block, the Questions following the blocks in    *)
(* input order; two Questions have the same id exactly when their blocks   *)
(* are headed by the same id.                                              *)
C13_NthStart(rs, j) ==
    CHOOSE k \in 1..Len(rs) :
        IsBlockStart(rs, k) /\ Cardinality({i \in 1..k : IsBlockStart(rs, i)}) = j

C13_IdsAreBlockIds ==
    pstat = "returned" =>
        /\ Len(data) <= NumBlocks(rows)
        /\ \A j \in 1..Len(data) :
             /\ C13_NonEmptyId(data[j])
             /\ data[j].qid = rows[C13_NthStart(rows, j)].qid
        /\ \A j, k \in 1..Len(data) :
             data[j].qid = data[k].qid <=>
                 rows[C13_NthStart(rows, j)].qid = rows[C13_NthStart(rows, k)].qid

C13_Witness ==
    /\ pstat = "returned"
    /\ Len(rows) = 3
    /\ RowIsBlank(rows[2])
    /\ Len(data) = 2
    /\ data[1].qid = data[2].qid

----------------------------------------------------------------------------
(* C14: once the input has been read, a run with a valid selection always  *)
(* ends having handled every selected question, each with exactly one of   *)
(* the outcomes SkippedExisting, NoCluesResolved, Exported; no failure of  *)
(* a retrieval or of the assembly ends the run early.  A Fetcher error     *)
(* other than PytubeError leaves get_video_path_for_clue and main, so the  *)
(* run stops at that clue and the later questions are never handled.       *)
C14_OutcomesOf(q) == {k \in 1..Len(outcome) : outcome[k].q = q}

C14_RunHandlesAllSelected ==
    /\ (args.all \/ args.qs_given) => pc # "crashed"
    /\ pc = "done" =>
         \A q \in 1..Len(data) :
             Cardinality(C14_OutcomesOf(q)) = IF IsSelected(q) THEN 1 ELSE 0

----------------------------------------------------------------------------
(* C15: a run is accepted only when exactly one of --qs and --all is       *)
(* given; with both, and with neither, the run is refused before any       *)
(* question is handled, so it never completes.  parse_args refuses only    *)
(* the two together: with neither, main reads the input and goes into its  *)
(* loop, and on an input without questions it runs to its end.             *)
C15_ExactlyOne == (args.all /\ ~args.qs_given) \/ (~args.all /\ args.qs_given)

C15_InvalidSelectionRejected == ~C15_ExactlyOne => pc # "done"

----------------------------------------------------------------------------
(* C16: a block made of prompt and answer rows only, with no clue row,     *)
(* that is followed by a blank row is dropped: the blank row leaves the    *)
(* list of Questions as it was.  The source compares the accumulator with  *)
(* the empty question, from which the block differs by its id, so the      *)
(* block is appended: the rows (Q1, "Q: p"), blank return one Question.    *)
C16_BlankAfterCluelessBlock ==
    /\ pstat = "parsing"
    /\ ri <= Len(rows)
    /\ ri' = ri + 1
    /\ RowIsBlank(rows[ri])
    /\ current_question.qid # None
    /\ current_question.clues = <<>>

C16_DropStep ==
    C16_BlankAfterCluelessBlock =>
        data' = data /\ current_question' = generate_empty_question

C16_CluelessBlockDropped == [][C16_DropStep]_vars

(* C16, amended: such a block followed by a blank row is kept: the blank   *)
(* row appends a Question with the block's id, prompt and answer and with  *)
(* no clue, and that Question stays in the list returned.                  *)
C16_KeepStep ==
    /\ C16_BlankAfterCluelessBlock =>
         /\ data' = Append(data, current_question)
         /\ current_question' = generate_empty_question
    /\ Len(data') >= Len(data) /\ SubSeq(data', 1, Len(data)) = data

C16_Example ==
    (/\ pstat = "returned"
     /\ Len(rows) >= 2
     /\ rows[1] = Row(QID1, <<"Q", ":", " ", "p", " ">>, E, E, E)
     /\ RowIsBlank(rows[2])) =>
        /\ Len(data) >= 1
        /\ data[1] = [qid |-> QID1, question |-> <<"p">>, answer |-> E, clues |-> <<>>]

C16_CluelessBlockKept == [][C16_KeepStep]_vars /\ []C16_Example

C16_Witness ==
    /\ pstat = "returned"
    /\ Len(rows) = 3
    /\ ~RowIsBlank(rows[1]) /\ ~RowIsBlank(rows[2]) /\ RowIsBlank(rows[3])
    /\ Len(data) = 1
    /\ data[1].clues = <<>>
    /\ data[1].question # E /\ data[1].answer # E

----------------------------------------------------------------------------
(* The clues of the Questions returned, in order, and the clue rows of the *)
(* input, in order.                                                        *)
AllClues(qs) == Flatten([j \in 1..Len(qs) |-> qs[j].clues])

ClueRowsOf(rs) == SelectSeq(rs, RowIsClue)

\* The decimal numeral of an integer.
RECURSIVE Numeral(_)
Numeral(n) ==
    IF n < 0 THEN <<"-">> \o Numeral(0 - n)
    ELSE IF n < 10 THEN <<CHOOSE c \in Digits : DigitVal(c) = n>>
    ELSE Numeral(n \div 10) \o Numeral(n % 10)

NoBlanks(s) == SelectSeq(s, LAMBDA c : c # " ")

(* C17: every Clue returned by parse_csv has a start that is an integer    *)
(* not below 0 and a length that is an integer above 0, a row with a       *)
(* negative start or a length of zero or less yielding no Clue.  The       *)
(* source converts the two fields with int() and checks no range: the      *)
(* rows (Q1, x, 0, 5), (y, " 12", "-3") return a Clue of length -3.        *)
C17_ClueRangesHold ==
    pstat = "returned" =>
        \A k \in 1..Len(AllClues(data)) :
            AllClues(data)[k].start >= 0 /\ AllClues(data)[k].length > 0

(* C17, amended: every Clue returned has an integer start and length, the  *)
(* numbers written in the row's two fields (blanks around them ignored,    *)
(* a sign accepted, no range checked); a clue row with a non-numeric       *)
(* start or length yields no Clue, parse_csv does not return.              *)
C17_CluesAreTheNumbersWritten ==
    pstat = "returned" =>
        /\ Len(AllClues(data)) = Len(ClueRowsOf(rows))
        /\ \A k \in 1..Len(ClueRowsOf(rows)) :
             LET clue == AllClues(data)[k]
                 row  == ClueRowsOf(rows)[k]
             IN  /\ ~C11_NonNumeric(row.start) /\ ~C11_NonNumeric(row.length)
                 /\ clue.start \in Int /\ clue.length \in Int
                 /\ Numeral(clue.start) = NoBlanks(row.start)
                 /\ Numeral(clue.length) = NoBlanks(row.length)

C17_Witness ==
    /\ pstat = "returned"
    /\ Len(data) = 1
    /\ Len(data[1].clues) = 2
    /\ data[1].clues[2].start = 12
    /\ data[1].clues[2].length < 0

----------------------------------------------------------------------------
(* C18: when parse_csv returns, no clue row has been lost, duplicated or   *)
(* reordered: the clues of the Questions returned, put end to end, are the *)
(* clue rows of the input in row order, and the Questions are in the order *)
(* of their blocks, each with the clue rows of its own block.              *)
C18_SameClue(clue, row) ==
    /\ clue.description = row.desc
    /\ clue.link = row.link
    /\ Numeral(clue.start) = NoBlanks(row.start)
    /\ Numeral(clue.length) = NoBlanks(row.length)

\* The rows of the j-th block of rs.
C18_Block(rs, j) ==
    LET s == C13_NthStart(rs, j)
        members == {k \in s..Len(rs) : ~RowIsBlank(rs[k]) /\ BlockStartOf(rs, k) = s}
    IN  SubSeq(rs, s, CHOOSE k \in members : \A i \in members : i <= k)

C18_ClueRowsKeptInOrder ==
    pstat = "returned" =>
        /\ Len(AllClues(data)) = Len(ClueRowsOf(rows))
        /\ \A k \in 1..Len(ClueRowsOf(rows)) :
             C18_SameClue(AllClues(data)[k], ClueRowsOf(rows)[k])
        /\ Len(data) <= NumBlocks(rows)
        /\ \A j \in 1..Len(data) :
             LET blockClues == ClueRowsOf(C18_Block(rows, j))
             IN  /\ Len(data[j].clues) = Len(blockClues)
                 /\ \A k \in 1..Len(blockClues) : C18_SameClue(data[j].clues[k], blockClues[k])

C18_Witness ==
    /\ pstat = "returned"
    /\ Len(rows) = 3
    /\ \A k \in 1..3 : RowIsClue(rows[k])
    /\ Len(data) = 2
    /\ Len(data[1].clues) = 2
    /\ data[1].clues[1].description # data[1].clues[2].description
    /\ Len(data[2].clues) = 1

----------------------------------------------------------------------------
(* C20: a blank row met while the accumulator is empty changes neither the *)
(* accumulator nor the list of Questions; hence a blank row added at the   *)
(* start of the input, or directly before or after a blank row of the      *)
(* input, never changes what parse_csv returns (nor whether it returns).   *)
C20_BlankOnEmptyStep ==
    (/\ pstat = "parsing" /\ ri <= Len(rows) /\ ri' = ri + 1
     /\ RowIsBlank(rows[ri])
     /\ current_question = generate_empty_question) =>
        /\ data' = data
        /\ current_question' = current_question
        /\ pstat' = "parsing"

C20_InsertAt(rs, k) == SubSeq(rs, 1, k) \o <<BlankRow>> \o SubSeq(rs, k + 1, Len(rs))

\* A blank row may be added after the first k rows.
C20_MayInsert(rs, k) ==
    \/ k = 0
    \/ k >= 1 /\ RowIsBlank(rs[k])
    \/ k < Len(rs) /\ RowIsBlank(rs[k + 1])

C20_SameResult ==
    pstat \in {"returned", "raised"} =>
        /\ parse_csv(rows) = [raise |-> pstat = "raised",
                              data |-> IF pstat = "raised" THEN <<>> ELSE data]
        /\ \A k \in 0..Len(rows) :
             C20_MayInsert(rows, k) => parse_csv(C20_InsertAt(rows, k)) = parse_csv(rows)

C20_BlankRowsIdempotent == [][C20_BlankOnEmptyStep]_vars /\ []C20_SameResult

C20_Witness ==
    /\ pstat = "returned"
    /\ Len(rows) = 3
    /\ RowIsClue(rows[1]) /\ RowIsBlank(rows[2]) /\ RowIsBlank(rows[3])
    /\ Len(data) = 1
    /\ current_question = generate_empty_question

----------------------------------------------------------------------------
(* C19: a clue whose start plus length exceeds the duration of the         *)
(* resolved file is treated as a failure when the audio is assembled and   *)
(* contributes no segment; it is never cut short silently.  So every       *)
(* non-empty segment of an exported audio is the whole time range of a     *)
(* clue of the question.  process_clip makes no test: the slice is cut at  *)
(* the end of the file and the shortened segment is exported.              *)
C19_Exceeds(clue) == clue.start + clue.length > MediaLenSec

C19_NoShortenedSegment ==
    (pc = "clues" /\ OutcomeAdded("Exported")) =>
        LET audio == audio_files'[AudioPathOf(data[qi].qid)] IN
        \A k \in 1..Len(audio) :
            audio[k].to > audio[k].from =>
                \E j \in 1..Len(data[qi].clues) :
                    /\ audio[k].from = data[qi].clues[j].start * 1000
                    /\ audio[k].to = (data[qi].clues[j].start + data[qi].clues[j].length) * 1000

C19_ExceedingClueFails == [][C19_NoShortenedSegment]_vars

(* C19, amended: such a clue is not detected when the audio is assembled:  *)
(* each clue whose resolution succeeded contributes the part of its time   *)
(* range that lies within the file, shortened or empty, and the assembly   *)
(* never stops the run; the question is NoCluesResolved exactly when the   *)
(* parts add up to nothing, and is exported otherwise.                     *)
RECURSIVE C19_ResolvedClues(_, _, _)
C19_ResolvedClues(res, clues, k) ==
    IF k > Len(clues) THEN <<>>
    ELSE (IF Succeeded(res[k]) THEN <<clues[k]>> ELSE <<>>) \o C19_ResolvedClues(res, clues, k + 1)

C19_Part(clue) ==
    IF clue.start >= MediaLenSec THEN <<MediaLenSec * 1000, MediaLenSec * 1000>>
    ELSE IF C19_Exceeds(clue) THEN <<clue.start * 1000, MediaLenSec * 1000>>
    ELSE <<clue.start * 1000, (clue.start + clue.length) * 1000>>

RECURSIVE C19_Sum(_)
C19_Sum(parts) == IF parts = <<>> THEN 0 ELSE (Head(parts)[2] - Head(parts)[1]) + C19_Sum(Tail(parts))

C19_AssemblyStep ==
    (pc = "clues" /\ Len(outcome') = Len(outcome) + 1) =>
        LET cl == C19_ResolvedClues(ResEvents(run, qi), data[qi].clues, 1)
            parts == [k \in 1..Len(cl) |-> C19_Part(cl[k])]
        IN  /\ pc' = "loop" /\ qi' = qi + 1
            /\ IF C19_Sum(parts) = 0
               THEN OutcomeAdded("NoCluesResolved") /\ audio_files' = audio_files
               ELSE /\ OutcomeAdded("Exported")
                    /\ LET audio == audio_files'[AudioPathOf(data[qi].qid)]
                       IN  [k \in 1..Len(audio) |-> <<audio[k].from, audio[k].to>>] = parts

C19_ExceedingClueIsCut == [][C19_AssemblyStep]_vars

C19_Witness ==
    \E k \in 1..Len(outcome) :
        LET q == outcome[k].q
            audio == audio_files[AudioPathOf(data[q].qid)]
        IN  /\ outcome[k].is = "Exported"
            /\ Len(data[q].clues) = 2
            /\ C19_Exceeds(data[q].clues[1]) /\ data[q].clues[1].start < MediaLenSec
            /\ data[q].clues[2].start >= MediaLenSec
            /\ Len(audio) = 2
            /\ audio[1].to - audio[1].from < data[q].clues[1].length * 1000
            /\ audio[1].to > audio[1].from
            /\ audio[2].to = audio[2].from

====
